---- MODULE Spec2Model ----
(***************************************************************************)
(* Model of the eligibility engine of backend/app/main.py: the threshold   *)
(* and bonus tables, calculate_limits, determine_eligibility and the       *)
(* check_eligibility endpoint that wraps it.                               *)
(*                                                                         *)
(* Amounts are whole currency units.  A Python exception is modelled as a  *)
(* value [raised |-> TRUE, ...]; a normal return as [raised |-> FALSE,     *)
(* value |-> v].                                                           *)
(*                                                                         *)
(* The tables are module-level dicts, mutable objects shared by all calls: *)
(* the variable tables holds their current contents.  The handler is an    *)
(* async function without an await, so one evaluation runs to its end      *)
(* before the next one starts.                                             *)
(***************************************************************************)
EXTENDS Integers, FiniteSets, Sequences, TLC

VARIABLES pc, request, outcome, response, tables, evals, stdout_encodes,
          users, now, next_uuid, call

\* the eligibility endpoint
engine_vars == <<pc, request, outcome, response, tables, evals, stdout_encodes>>

\* the user store (table users), the clock, the uuid4 source, the last call
auth_vars == <<users, now, next_uuid, call>>

vars == <<engine_vars, auth_vars>>

(***************************************************************************)
(* Bounds of the explored input space.                                     *)
(***************************************************************************)
\* adultCount ranges over 0 .. MaxAdults (1 and 2 are the valid values)
MaxAdults == 3
\* childCount ranges over -MaxNegChildren .. MaxChildren
MaxChildren == 3
MaxNegChildren == 1
\* number of evaluations in a sequence of requests
MaxEvals == 3
\* number of uuid4 tokens drawn
MaxUuids == 2
\* the clock runs from 0 to MaxNow minutes in steps of TickMinutes
MaxNow == 40
TickMinutes == 20

(***************************************************************************)
(* Static tables (main.py:33-74).                                          *)
(***************************************************************************)
ELIGIBILITY_CRITERIA_NO_KIDS ==
    (1 :> [base    |-> [grossA |-> 38011, netA |-> 23540, grossB |-> 52724, netB |-> 32956],
           retired |-> [grossA |-> 31076, netA |-> 23540, grossB |-> 40911, netB |-> 32956]])
 @@ (2 :> [base    |-> [grossA |-> 51777, netA |-> 28350, grossB |-> 69496, netB |-> 39690],
           retired |-> [grossA |-> 42668, netA |-> 28350, grossB |-> 56244, netB |-> 39690]])

\* a table with a mistyped cell: grossB of the single-adult base row
ELIGIBILITY_CRITERIA_WITH_KIDS_typo ==
    (1 :> [base    |-> [grossA |-> 53121, netA |-> 29210, grossB |-> 17377, netB |-> 40894],
           retired |-> [grossA |-> 31076, netA |-> 23540, grossB |-> 40911, netB |-> 32956]])
 @@ (2 :> [base    |-> [grossA |-> 57074, netA |-> 35740, grossB |-> 79411, netB |-> 50036],
           retired |-> [grossA |-> 42668, netA |-> 28350, grossB |-> 56244, netB |-> 39690]])

ELIGIBILITY_CRITERIA_WITH_KIDS ==
    (1 :> [base    |-> [grossA |-> 53121, netA |-> 29210, grossB |-> 71377, netB |-> 40894],
           retired |-> [grossA |-> 31076, netA |-> 23540, grossB |-> 40911, netB |-> 32956]])
 @@ (2 :> [base    |-> [grossA |-> 57074, netA |-> 35740, grossB |-> 79411, netB |-> 50036],
           retired |-> [grossA |-> 42668, netA |-> 28350, grossB |-> 56244, netB |-> 39690]])

CHILD_BONUS ==
    [single |-> [grossA |-> 5297,  netA |-> 7390, grossB |-> 9916,  netB |-> 10346],
     couple |-> [grossA |-> 11547, netA |-> 7390, grossB |-> 16166, netB |-> 10346]]

MARRIAGE_BONUS == 6250

\* the module globals as they stand after import
module_globals ==
    [ELIGIBILITY_CRITERIA_NO_KIDS   |-> ELIGIBILITY_CRITERIA_NO_KIDS,
     ELIGIBILITY_CRITERIA_WITH_KIDS |-> ELIGIBILITY_CRITERIA_WITH_KIDS,
     CHILD_BONUS                    |-> CHILD_BONUS,
     MARRIAGE_BONUS                 |-> MARRIAGE_BONUS]

(***************************************************************************)
(* Text constants of the responses (umlauts transliterated).               *)
(***************************************************************************)
GROUP_A == "Gruppe A"
GROUP_B == "Gruppe B"
NOT_ELIGIBLE == "Nicht Foerderungsfaehig"

REASON_INVALID_INPUT == "Ungueltige Eingabedaten. Bitte ueberpruefen Sie Ihre Angaben."
REASON_INVALID_INCOME == "Das Einkommen muss groesser als 0 sein."
REASON_GROUP_A == "Sie erfuellen die Voraussetzungen fuer Gruppe A."
REASON_GROUP_B == "Sie erfuellen die Voraussetzungen fuer Gruppe B."
REASON_BOTH_EXCEED == "Ihr Brutto- und Nettoeinkommen liegen ueber den zulaessigen Grenzen."
REASON_GROSS_EXCEEDS == "Ihr Bruttoeinkommen liegt ueber der zulaessigen Grenze."
REASON_NET_EXCEEDS == "Ihr Nettoeinkommen liegt ueber der zulaessigen Grenze."

(***************************************************************************)
(* Python helpers.                                                         *)
(***************************************************************************)
max(a, b) == IF a >= b THEN a ELSE b

Return(v) == [raised |-> FALSE, value |-> v]

\* dict lookup table[key]: KeyError(key) when the key is absent
KeyError(key) == [raised |-> TRUE, error |-> "KeyError", message |-> ToString(key)]

\* print() of a character the encoding of stdout cannot encode
UnicodeEncodeError ==
    [raised |-> TRUE, error |-> "UnicodeEncodeError",
     message |-> "codec can't encode character"]

ZERO_BONUS == [grossA |-> 0, netA |-> 0, grossB |-> 0, netB |-> 0]

(***************************************************************************)
(* calculate_limits (main.py:99-126).                                      *)
(***************************************************************************)
\* the no-kids branch is taken for the wrong sign of childCount
no_children_negative(req) == req.childCount < 0

no_children(req) == req.childCount = 0

row_key(req) == IF req.isRetired THEN "retired" ELSE "base"

\* every child counted, the first one included
additional_children_all(req) == max(0, req.childCount)

additional_children(req) == max(0, req.childCount - 1)

bonus_type(req) == IF req.adultCount = 1 THEN "single" ELSE "couple"

\* the bonus granted whatever the marital status
marriage_bonus_always(req) == tables.MARRIAGE_BONUS

\* the bonus granted to disabled applicants as well
marriage_bonus_or_disabled(req) ==
    IF req.isMarried \/ req.isDisabled THEN tables.MARRIAGE_BONUS ELSE 0

marriage_bonus(req) == IF req.isMarried THEN tables.MARRIAGE_BONUS ELSE 0

criteria_table(req) ==
    IF no_children(req) THEN tables.ELIGIBILITY_CRITERIA_NO_KIDS
                        ELSE tables.ELIGIBILITY_CRITERIA_WITH_KIDS

\* the child bonus added to the Group A limits only
limits_child_bonus_a_only(req) ==
    IF no_children(req)
    THEN ZERO_BONUS
    ELSE [grossA |-> additional_children(req) * tables.CHILD_BONUS[bonus_type(req)].grossA,
          netA   |-> additional_children(req) * tables.CHILD_BONUS[bonus_type(req)].netA,
          grossB |-> 0,
          netB   |-> 0]

limits_child_bonus(req) ==
    IF no_children(req)
    THEN ZERO_BONUS
    ELSE [grossA |-> additional_children(req) * tables.CHILD_BONUS[bonus_type(req)].grossA,
          netA   |-> additional_children(req) * tables.CHILD_BONUS[bonus_type(req)].netA,
          grossB |-> additional_children(req) * tables.CHILD_BONUS[bonus_type(req)].grossB,
          netB   |-> additional_children(req) * tables.CHILD_BONUS[bonus_type(req)].netB]

calculate_limits(req) ==
    IF req.adultCount \notin DOMAIN criteria_table(req)
    THEN KeyError(req.adultCount)
    ELSE LET base  == criteria_table(req)[req.adultCount][row_key(req)]
             bonus == limits_child_bonus(req)
         IN  Return([grossA |-> base.grossA + bonus.grossA + marriage_bonus(req),
                     netA   |-> base.netA + bonus.netA,
                     grossB |-> base.grossB + bonus.grossB + marriage_bonus(req),
                     netB   |-> base.netB + bonus.netB])

\* the base row is updated in place and returned, instead of a new dict
globals_after_inplace_update(req) ==
    LET computed == calculate_limits(req)
        name     == IF no_children(req) THEN "ELIGIBILITY_CRITERIA_NO_KIDS"
                                        ELSE "ELIGIBILITY_CRITERIA_WITH_KIDS"
    IN  IF computed.raised
        THEN tables
        ELSE [tables EXCEPT ![name][req.adultCount][row_key(req)] = computed.value]

\* the module globals after a call of calculate_limits: the rows are only
\* read, the limits are returned in a new dict
globals_after_calculate_limits(req) == tables

(***************************************************************************)
(* determine_eligibility (main.py:128-267).                                *)
(***************************************************************************)
\* the two shape conditions joined by "and"
invalid_input_and(req) == req.adultCount \notin {1, 2} /\ req.childCount < 0

\* the adult count left unchecked
invalid_input_children_only(req) == req.childCount < 0

\* the child count left unchecked
invalid_input_adults_only(req) == req.adultCount \notin {1, 2}

invalid_input(req) == req.adultCount \notin {1, 2} \/ req.childCount < 0

\* zero accepted as an income
invalid_income_negative(req) == req.grossIncome < 0 \/ req.netIncome < 0

invalid_income(req) == req.grossIncome <= 0 \/ req.netIncome <= 0

\* every child counted, the first one included
response_child_bonus_all(req) ==
    LET n == max(0, req.childCount)
    IN  [grossA |-> n * tables.CHILD_BONUS["single"].grossA,
         netA   |-> n * tables.CHILD_BONUS["single"].netA,
         grossB |-> n * tables.CHILD_BONUS["single"].grossB,
         netB   |-> n * tables.CHILD_BONUS["single"].netB]

response_child_bonus(req) ==
    LET n == IF req.childCount > 0 THEN max(0, req.childCount - 1) ELSE 0
    IN  [grossA |-> n * tables.CHILD_BONUS["single"].grossA,
         netA   |-> n * tables.CHILD_BONUS["single"].netA,
         grossB |-> n * tables.CHILD_BONUS["single"].grossB,
         netB   |-> n * tables.CHILD_BONUS["single"].netB]

\* exclusive Group A boundary
gross_within_a_strict(req, limits) == req.grossIncome < limits.grossA

gross_within_a(req, limits) == req.grossIncome <= limits.grossA

\* the comparison turned around
net_within_a_reversed(req, limits) == req.netIncome >= limits.netA

net_within_a(req, limits) == req.netIncome <= limits.netA

\* Group B ceiling reached already at the limit itself
exceeds_b_inclusive(req, limits) ==
    req.grossIncome >= limits.grossB \/ req.netIncome >= limits.netB

exceeds_b(req, limits) ==
    req.grossIncome > limits.grossB \/ req.netIncome > limits.netB

\* the first test joined by "or"
exceeds_reason_or(req, limits) ==
    IF req.grossIncome > limits.grossB \/ req.netIncome > limits.netB
    THEN REASON_BOTH_EXCEED
    ELSE IF req.grossIncome > limits.grossB
         THEN REASON_GROSS_EXCEEDS
         ELSE REASON_NET_EXCEEDS

exceeds_reason(req, limits) ==
    IF req.grossIncome > limits.grossB /\ req.netIncome > limits.netB
    THEN REASON_BOTH_EXCEED
    ELSE IF req.grossIncome > limits.grossB
         THEN REASON_GROSS_EXCEEDS
         ELSE REASON_NET_EXCEEDS

\* the dict returned on every path
Result(eligible, group, reason, limits, child_bonus) ==
    [eligible |-> eligible,
     group    |-> group,
     reason   |-> reason,
     details  |-> [adjustedGrossA |-> limits.grossA,
                   adjustedNetA   |-> limits.netA,
                   adjustedGrossB |-> limits.grossB,
                   adjustedNetB   |-> limits.netB,
                   childBonus     |-> child_bonus]]

\* the decision tree, diagnostics aside
eligibility_decision(req) ==
    IF invalid_input(req)
    THEN Return(Result(FALSE, NOT_ELIGIBLE, REASON_INVALID_INPUT, ZERO_BONUS, ZERO_BONUS))
    ELSE IF invalid_income(req)
    THEN Return(Result(FALSE, NOT_ELIGIBLE, REASON_INVALID_INCOME, ZERO_BONUS, ZERO_BONUS))
    ELSE LET computed == calculate_limits(req)
         IN  IF computed.raised
             THEN computed
             ELSE LET limits      == computed.value
                      child_bonus == response_child_bonus(req)
                  IN  IF gross_within_a(req, limits) /\ net_within_a(req, limits)
                      THEN Return(Result(TRUE, GROUP_A, REASON_GROUP_A, limits, child_bonus))
                      ELSE IF exceeds_b(req, limits)
                      THEN Return(Result(FALSE, NOT_ELIGIBLE,
                                         exceeds_reason(req, limits), limits, child_bonus))
                      ELSE Return(Result(TRUE, GROUP_B, REASON_GROUP_B, limits, child_bonus))

\* calculate_limits is called once both validations have passed
calls_calculate_limits(req) == ~invalid_input(req) /\ ~invalid_income(req)

\* Every path prints a check-mark or cross glyph before it returns (and after
\* the call of calculate_limits); print raises when stdout cannot encode it.
determine_eligibility(req) ==
    LET decision == eligibility_decision(req)
    IN  IF decision.raised \/ stdout_encodes THEN decision ELSE UnicodeEncodeError

(***************************************************************************)
(* Requests: EligibilityRequest (main.py:86-93).  Incomes are probed below *)
(* zero, at zero, and one unit below, at and above each adjusted limit of  *)
(* the household.                                                          *)
(***************************************************************************)
Shapes ==
    [adultCount : 0 .. MaxAdults,
     childCount : (0 - MaxNegChildren) .. MaxChildren,
     isDisabled : BOOLEAN,
     isMarried  : BOOLEAN,
     isRetired  : BOOLEAN]

BaseIncomes == {-1, 0, 1, 10000, 20000}

Around(v) == {v - 1, v, v + 1}

GrossIncomes(shape) ==
    LET computed == calculate_limits(shape)
    IN  IF computed.raised
        THEN BaseIncomes
        ELSE BaseIncomes \cup Around(computed.value.grossA) \cup Around(computed.value.grossB)

NetIncomes(shape) ==
    LET computed == calculate_limits(shape)
    IN  IF computed.raised
        THEN BaseIncomes
        ELSE BaseIncomes \cup Around(computed.value.netA) \cup Around(computed.value.netB)

EligibilityRequest(shape, gross, net) ==
    [adultCount  |-> shape.adultCount,
     childCount  |-> shape.childCount,
     isDisabled  |-> shape.isDisabled,
     isMarried   |-> shape.isMarried,
     isRetired   |-> shape.isRetired,
     grossIncome |-> gross,
     netIncome   |-> net]

Requests ==
    UNION { { EligibilityRequest(shape, gross, net) :
                gross \in GrossIncomes(shape), net \in NetIncomes(shape) } :
            shape \in Shapes }

(***************************************************************************)
(* The endpoint POST /api/check-eligibility (main.py:484-489).             *)
(***************************************************************************)
NoOutcome == [raised |-> FALSE, pending |-> TRUE]
NoResponse == [status_code |-> 0]

\* an empty user table, no call of the account endpoints so far
NoCall ==
    [op |-> "none", arg |-> "", state |-> [null |-> TRUE], status_code |-> 0,
     body |-> [message |-> ""], user |-> "None"]

AuthIdle ==
    /\ users = << >>
    /\ now = 0
    /\ next_uuid = 1
    /\ call = NoCall

Init ==
    /\ tables = module_globals
    /\ stdout_encodes = TRUE
    /\ pc = "received"
    /\ request \in Requests
    /\ outcome = NoOutcome
    /\ response = NoResponse
    /\ evals = << >>
    /\ AuthIdle

\* the handler: the engine's result is the body; an exception becomes
\* HTTPException(status_code=400, detail=str(e))
check_eligibility ==
    /\ pc = "received"
    /\ LET r == determine_eligibility(request)
       IN  /\ outcome' = r
           /\ response' = IF r.raised
                          THEN [status_code |-> 400, detail |-> r.message]
                          ELSE [status_code |-> 200, body |-> r.value]
           /\ evals' = Append(evals, [request |-> request, outcome |-> r])
    /\ tables' = IF calls_calculate_limits(request)
                 THEN globals_after_calculate_limits(request)
                 ELSE tables
    /\ pc' = "responded"
    /\ UNCHANGED <<request, stdout_encodes>>
    /\ UNCHANGED auth_vars

Next == check_eligibility

Spec == Init /\ [][Next]_vars

(***************************************************************************)
(* A sequence of evaluations: after a response the next request arrives.   *)
(***************************************************************************)
\* a few households, each with an income on and just above its Group A limit
EvalRequests ==
    { EligibilityRequest(
          [adultCount |-> a, childCount |-> c, isDisabled |-> FALSE,
           isMarried |-> TRUE, isRetired |-> FALSE],
          ELIGIBILITY_CRITERIA_WITH_KIDS[a]["base"].grossA, net) :
      a \in {1, 2}, c \in {1, 2}, net \in {20000, 50000} }

InitEval ==
    /\ tables = module_globals
    /\ stdout_encodes = TRUE
    /\ pc = "received"
    /\ request \in EvalRequests
    /\ outcome = NoOutcome
    /\ response = NoResponse
    /\ evals = << >>
    /\ AuthIdle

Receive ==
    /\ pc = "responded"
    /\ Len(evals) < MaxEvals
    /\ request' \in EvalRequests
    /\ outcome' = NoOutcome
    /\ response' = NoResponse
    /\ pc' = "received"
    /\ UNCHANGED <<tables, evals, stdout_encodes>>
    /\ UNCHANGED auth_vars

NextEval == check_eligibility \/ Receive

SpecEval == InitEval /\ [][NextEval]_vars

(***************************************************************************)
(* One request on a host whose stdout may or may not be able to encode the *)
(* glyphs of the diagnostic prints.                                        *)
(***************************************************************************)
InitConsole ==
    /\ tables = module_globals
    /\ stdout_encodes \in BOOLEAN
    /\ pc = "received"
    /\ request \in Requests
    /\ outcome = NoOutcome
    /\ response = NoResponse
    /\ evals = << >>
    /\ AuthIdle

SpecConsole == InitConsole /\ [][Next]_vars

(***************************************************************************)
(* The account endpoints of backend/app/main.py and backend/app/auth.py    *)
(* over the table users of backend/app/models.py.                          *)
(*                                                                         *)
(* A row of users is keyed by its e-mail address (a unique column).  An    *)
(* object of class User carries the attributes the handlers assign; a      *)
(* commit writes the mapped columns of the class and nothing else, and a   *)
(* query can only name a mapped column: models.User.<name> for any other   *)
(* name raises AttributeError before the database is asked.  Time is in    *)
(* minutes.  Each handler is an async function without an await, so one    *)
(* request is handled to its end before the next one starts.               *)
(***************************************************************************)

\* the class with the attributes of generate_auth_token and of the handlers
\* mapped as columns too
User_columns_with_tokens ==
    {"id", "email", "is_verified", "created_at", "updated_at",
     "document_check_state", "auth_token", "token_expires_at", "last_login"}

\* the mapped columns of class User (models.py:13-20)
User_columns ==
    {"id", "email", "is_verified", "created_at", "updated_at",
     "document_check_state"}

\* Python None in a token column, a timestamp column and the JSON column
None == "None"
NoneTime == -1
NoneState == [null |-> TRUE]

\* timedelta(minutes=30) of generate_auth_token, timedelta(days=30) of the
\* document endpoints
TOKEN_MINUTES == 30
DOCUMENT_TOKEN_MINUTES == 43200

Emails == {"a@example.org", "b@example.org"}

\* str(uuid.uuid4()): the n-th token drawn; no two draws collide
uuid4(n) == "uuid-" \o ToString(n)

\* what a client can present as a token: a token drawn so far, an e-mail
\* address, or something else
Tokens == {uuid4(n) : n \in 1..(next_uuid - 1)} \cup Emails \cup {"guess"}

DocumentCheckState ==
    {[propertyType |-> "neubau", answers |-> {<<"q1", "ja">>}],
     [propertyType |-> "bestand", answers |-> {}]}

\* state.dict()
dict(state) == [propertyType |-> state.propertyType, answers |-> state.answers]

\* the Authorization header of a request
NoHeader == [scheme |-> "", credentials |-> ""]
Bearer(token) == [scheme |-> "Bearer", credentials |-> token]
Headers == {NoHeader} \cup {Bearer(t) : t \in Tokens}

HTTPException(status_code, detail) ==
    [raised |-> TRUE, error |-> "HTTPException",
     status_code |-> status_code, detail |-> detail]

AttributeError(name) ==
    [raised |-> TRUE, error |-> "AttributeError", message |-> name]

\* models.User(email=...): the attributes of a new object
User ==
    [is_verified |-> FALSE, auth_token |-> None, token_expires_at |-> NoneTime,
     document_check_state |-> NoneState]

\* User.generate_auth_token (models.py:26-30)
generate_auth_token(user) ==
    [user EXCEPT !.auth_token = uuid4(next_uuid),
                 !.token_expires_at = now + TOKEN_MINUTES]

\* the value a commit stores for an attribute: that of the object for a
\* mapped column, nothing for any other attribute
column(name, value, unmapped) ==
    IF name \in User_columns THEN value ELSE unmapped

\* db.add(user); db.commit(): the row of the object after the commit
commit(store, email, user) ==
    LET row == [is_verified |->
                    column("is_verified", user.is_verified, FALSE),
                auth_token |->
                    column("auth_token", user.auth_token, None),
                token_expires_at |->
                    column("token_expires_at", user.token_expires_at, NoneTime),
                document_check_state |->
                    column("document_check_state", user.document_check_state,
                           NoneState)]
    IN  [e \in DOMAIN store \cup {email} |-> IF e = email THEN row ELSE store[e]]

\* db.query(models.User).filter(models.User.auth_token == token).first():
\* the e-mail of the row found, None if there is none
query_by_auth_token(token) ==
    IF "auth_token" \notin User_columns
    THEN AttributeError("auth_token")
    ELSE LET found == {e \in DOMAIN users : users[e].auth_token = token}
         IN  Return(IF found = {} THEN None ELSE CHOOSE e \in found : TRUE)

\* user.token_expires_at and user.token_expires_at < datetime.utcnow()
expired(user) ==
    user.token_expires_at # NoneTime /\ user.token_expires_at < now

\* get_token_from_header (main.py:450-457)
get_token_from_header(header) ==
    IF header.scheme # "Bearer"
    THEN HTTPException(401, "Invalid authorization header")
    ELSE Return(header.credentials)

\* what a handler leaves behind: the response, the table, the uuid4 source,
\* and the row it worked on (None if it reached none)
Handled(status_code, body, store, uuid, user) ==
    [status_code |-> status_code, body |-> body, users |-> store,
     next_uuid |-> uuid, user |-> user]

Failed(status_code, detail) ==
    Handled(status_code, [detail |-> detail], users, next_uuid, None)

\* one request handled: the effect of the handler becomes the next state
Respond(op, arg, state, r) ==
    /\ call' = [op |-> op, arg |-> arg, state |-> state,
                status_code |-> r.status_code, body |-> r.body,
                user |-> r.user]
    /\ users' = r.users
    /\ next_uuid' = r.next_uuid
    /\ UNCHANGED now
    /\ UNCHANGED engine_vars

\* POST /api/auth/register (main.py:270-306); sent is the result of
\* email_service.send_verification_email
register(email, sent) ==
    /\ next_uuid <= MaxUuids
    /\ LET existing == email \in DOMAIN users
           user == IF existing THEN users[email] ELSE User
           store == commit(users, email, generate_auth_token(user))
       IN  Respond("register", email, NoneState,
               IF existing /\ user.is_verified
               THEN Failed(400, "Email already registered and verified")
               ELSE IF sent
               THEN Handled(200, [message |-> "Verification email sent"],
                            store, next_uuid + 1, email)
               ELSE Handled(500,
                            [detail |-> "Failed to send verification email"],
                            store, next_uuid + 1, email))

\* POST /api/auth/login (main.py:308-342); sent is the result of
\* email_service.send_login_link
login(email, sent) ==
    /\ next_uuid <= MaxUuids
    /\ LET user == users[email]
           store == commit(users, email, generate_auth_token(user))
       IN  Respond("login", email, NoneState,
               IF email \notin DOMAIN users
               THEN Failed(404, "User not found")
               ELSE IF ~user.is_verified
               THEN Failed(400, "Please verify your email first")
               ELSE IF sent
               THEN Handled(200, [message |-> "Login link sent"],
                            store, next_uuid + 1, email)
               ELSE Handled(500, [detail |-> "Failed to send login link"],
                            store, next_uuid + 1, email))

\* GET /api/auth/verify/{token} (main.py:344-390)
verify_email(token) ==
    LET q == query_by_auth_token(token)
        email == q.value
        user == users[email]
        cleared == [user EXCEPT !.auth_token = None,
                                !.token_expires_at = NoneTime]
    IN  Respond("verify_email", token, NoneState,
            IF q.raised
            THEN Failed(500, "Ein unerwarteter Fehler ist aufgetreten")
            ELSE IF email = None
            THEN Failed(404, "Ungueltiger oder abgelaufener Token")
            ELSE IF expired(user)
            THEN Handled(400, [detail |-> "Token ist abgelaufen"],
                         commit(users, email, cleared), next_uuid, email)
            ELSE Handled(200, [message |-> "E-Mail erfolgreich bestaetigt"],
                         commit(users, email,
                                [cleared EXCEPT !.is_verified = TRUE]),
                         next_uuid, email))

\* GET /api/auth/login/{token} (main.py:392-448): the session token is
\* generated on the object (419) and the object's auth_token is set to None
\* (423-424) before the commit
login_with_token(token) ==
    /\ next_uuid <= MaxUuids
    /\ LET q == query_by_auth_token(token)
           email == q.value
           user == users[email]
           cleared == [user EXCEPT !.auth_token = None,
                                   !.token_expires_at = NoneTime]
           session_token == generate_auth_token(user).auth_token
       IN  Respond("login_with_token", token, NoneState,
               IF q.raised
               THEN Failed(500, "Ein unerwarteter Fehler ist aufgetreten")
               ELSE IF email = None
               THEN Failed(404, "Ungueltiger oder abgelaufener Login-Link")
               ELSE IF ~user.is_verified
               THEN Handled(400,
                        [detail |->
                           "Bitte bestaetigen Sie zuerst Ihre E-Mail-Adresse"],
                        users, next_uuid, email)
               ELSE IF expired(user)
               THEN Handled(400, [detail |-> "Login-Link ist abgelaufen"],
                            commit(users, email, cleared), next_uuid, email)
               ELSE Handled(200,
                            [message |-> "Erfolgreich eingeloggt",
                             email |-> email, token |-> session_token],
                            commit(users, email, cleared), next_uuid + 1,
                            email))

\* GET /api/auth/validate (main.py:459-482)
validate_token(header) ==
    LET t == get_token_from_header(header)
        q == query_by_auth_token(t.value)
        email == q.value
    IN  Respond("validate_token", header.credentials, NoneState,
            IF t.raised
            THEN Failed(t.status_code, t.detail)
            ELSE IF q.raised
            THEN Failed(500, "Token validation failed")
            ELSE IF email = None
            THEN Failed(401, "Invalid token")
            ELSE IF expired(users[email])
            THEN Handled(401, [detail |-> "Token expired"], users, next_uuid,
                         email)
            ELSE Handled(200, [valid |-> TRUE, email |-> email], users,
                         next_uuid, email))

\* the dependency get_current_user (auth.py:11-43): HTTPBearer refuses a
\* request without credentials with 403, and no handler catches the
\* exception of the query, which the server answers with 500
get_current_user(header) ==
    LET q == query_by_auth_token(header.credentials)
        email == q.value
        user == users[email]
    IN  Respond("get_current_user", header.credentials, NoneState,
            IF header.scheme # "Bearer"
            THEN Failed(403, "Not authenticated")
            ELSE IF q.raised
            THEN Failed(500, "Internal Server Error")
            ELSE IF email = None
            THEN Failed(401, "Invalid authentication token")
            ELSE IF expired(user)
            THEN Handled(401, [detail |-> "Token has expired"], users,
                         next_uuid, email)
            ELSE IF ~user.is_verified
            THEN Handled(403, [detail |-> "User is not verified"], users,
                         next_uuid, email)
            ELSE Handled(200, [email |-> email], users, next_uuid, email))

\* the lookup shared by the two document endpoints (main.py:505-520 and
\* 550-565): the row with this auth_token, else the row with the token as
\* its e-mail, else a new row with the token as e-mail and as auth_token
\* (reached only where the query by auth_token returns, that is where
\* auth_token is a column the constructor accepts)
document_user(token) ==
    LET q == query_by_auth_token(token)
        created == commit(users, token,
                       [User EXCEPT !.auth_token = token,
                                    !.token_expires_at =
                                        now + DOCUMENT_TOKEN_MINUTES])
    IN  IF q.raised
        THEN q
        ELSE IF q.value # None
        THEN Return([email |-> q.value, users |-> users])
        ELSE IF token \in DOMAIN users
        THEN Return([email |-> token, users |-> users])
        ELSE Return([email |-> token, users |-> created])

\* POST /api/document-check/save (main.py:495-539)
save_document_check(header, state) ==
    LET t == get_token_from_header(header)
        found == document_user(t.value)
        email == found.value.email
        store == found.value.users
        user == [store[email] EXCEPT !.document_check_state = dict(state)]
    IN  Respond("save_document_check", header.credentials, state,
            IF t.raised
            THEN Failed(t.status_code, t.detail)
            ELSE IF found.raised
            THEN Failed(500, "Failed to save document check state")
            ELSE Handled(200,
                     [message |-> "Document check state saved successfully"],
                     commit(store, email, user), next_uuid, email))

\* GET /api/document-check/load (main.py:541-583)
load_document_check(header) ==
    LET t == get_token_from_header(header)
        found == document_user(t.value)
        email == found.value.email
        store == found.value.users
        user == store[email]
    IN  Respond("load_document_check", header.credentials, NoneState,
            IF t.raised
            THEN Failed(t.status_code, t.detail)
            ELSE IF found.raised
            THEN Failed(500, "Failed to load document check state")
            ELSE IF user.document_check_state = NoneState
            THEN Handled(200, [propertyType |-> "", answers |-> {}], store,
                         next_uuid, email)
            ELSE Handled(200, user.document_check_state, store, next_uuid,
                         email))

\* datetime.utcnow() moves on between two requests
Tick ==
    /\ now + TickMinutes <= MaxNow
    /\ now' = now + TickMinutes
    /\ call' = [NoCall EXCEPT !.op = "tick"]
    /\ UNCHANGED <<users, next_uuid>>
    /\ UNCHANGED engine_vars

\* the account endpoints alone: no eligibility request is in flight
IdleRequest ==
    EligibilityRequest([adultCount |-> 1, childCount |-> 0,
                        isDisabled |-> FALSE, isMarried |-> FALSE,
                        isRetired |-> FALSE], 1, 1)

InitAuth ==
    /\ tables = module_globals
    /\ stdout_encodes = TRUE
    /\ pc = "idle"
    /\ request = IdleRequest
    /\ outcome = NoOutcome
    /\ response = NoResponse
    /\ evals = << >>
    /\ AuthIdle

NextAuth ==
    \/ \E email \in Emails, sent \in BOOLEAN : register(email, sent)
    \/ \E email \in Emails, sent \in BOOLEAN : login(email, sent)
    \/ \E token \in Tokens : verify_email(token)
    \/ \E token \in Tokens : login_with_token(token)
    \/ \E header \in Headers : validate_token(header)
    \/ \E header \in Headers : get_current_user(header)
    \/ \E header \in Headers, state \in DocumentCheckState :
           save_document_check(header, state)
    \/ \E header \in Headers : load_document_check(header)
    \/ Tick

SpecAuth == InitAuth /\ [][NextAuth]_vars

(***************************************************************************)
(* Vocabulary of the properties.                                           *)
(***************************************************************************)
Responded == pc = "responded"

Returned == Responded /\ ~outcome.raised

ValidShape(req) == req.adultCount \in {1, 2} /\ req.childCount >= 0

PositiveIncome(req) == req.grossIncome > 0 /\ req.netIncome > 0

\* the request was classified against computed limits
Classified == Returned /\ ValidShape(request) /\ PositiveIncome(request)

AdjustedLimits(details) ==
    [grossA |-> details.adjustedGrossA, netA |-> details.adjustedNetA,
     grossB |-> details.adjustedGrossB, netB |-> details.adjustedNetB]

IsGroupA(res) == res.eligible /\ res.group = GROUP_A

IsGroupB(res) == res.eligible /\ res.group = GROUP_B

IsIneligible(res) == ~res.eligible /\ res.group = NOT_ELIGIBLE

ExceedReasons == {REASON_BOTH_EXCEED, REASON_GROSS_EXCEEDS, REASON_NET_EXCEEDS}

(***************************************************************************)
(* C1: for a valid household with both incomes positive the result is      *)
(* Group A (eligible) exactly when gross <= adjusted grossA and net <=     *)
(* adjusted netA, the limits being those of calculate_limits; the          *)
(* comparison is inclusive.                                                *)
(***************************************************************************)
C1_GroupA_iff_within_A ==
    (Responded /\ ValidShape(request) /\ PositiveIncome(request)) =>
        /\ ~outcome.raised
        /\ LET limits == calculate_limits(request).value
           IN  IsGroupA(outcome.value) <=>
                   (request.grossIncome <= limits.grossA /\ request.netIncome <= limits.netA)

\* single adult, no children, income exactly on both Group A limits
C1_Witness ==
    /\ Returned
    /\ request.adultCount = 1 /\ request.childCount = 0
    /\ ~request.isMarried /\ ~request.isRetired
    /\ request.grossIncome = 38011 /\ request.netIncome = 23540
    /\ IsGroupA(outcome.value)

(***************************************************************************)
(* C2: a valid household with positive income that fails the Group A test  *)
(* and exceeds a Group B limit is ineligible, and the reason tells which    *)
(* of the two dimensions exceed: both, gross only, or net only.            *)
(***************************************************************************)
C2_ExceedsB_Ineligible ==
    (Responded /\ ValidShape(request) /\ PositiveIncome(request)) =>
        /\ ~outcome.raised
        /\ LET limits  == calculate_limits(request).value
               failsA  == ~(request.grossIncome <= limits.grossA
                            /\ request.netIncome <= limits.netA)
               grossEx == request.grossIncome > limits.grossB
               netEx   == request.netIncome > limits.netB
               res     == outcome.value
           IN  (failsA /\ (grossEx \/ netEx)) =>
                   /\ IsIneligible(res)
                   /\ res.reason \in ExceedReasons
                   /\ (res.reason = REASON_BOTH_EXCEED) <=> (grossEx /\ netEx)
                   /\ (res.reason = REASON_GROSS_EXCEEDS) <=> (grossEx /\ ~netEx)
                   /\ (res.reason = REASON_NET_EXCEEDS) <=> (netEx /\ ~grossEx)

\* single adult, no children, gross one unit above grossB, net on netB
C2_Witness ==
    /\ Returned
    /\ request.adultCount = 1 /\ request.childCount = 0
    /\ ~request.isMarried /\ ~request.isRetired
    /\ request.grossIncome = 52725 /\ request.netIncome = 32956
    /\ IsIneligible(outcome.value)
    /\ outcome.value.reason = REASON_GROSS_EXCEEDS

(***************************************************************************)
(* C3: for a valid household with positive income the result is Group B    *)
(* (eligible) exactly when the income fails the Group A test and is within *)
(* both Group B ceilings, which are inclusive.                             *)
(***************************************************************************)
C3_GroupB_iff_between ==
    (Responded /\ ValidShape(request) /\ PositiveIncome(request)) =>
        /\ ~outcome.raised
        /\ LET limits == calculate_limits(request).value
           IN  IsGroupB(outcome.value) <=>
                   /\ (request.grossIncome > limits.grossA \/ request.netIncome > limits.netA)
                   /\ request.grossIncome <= limits.grossB
                   /\ request.netIncome <= limits.netB

\* income exactly on both Group B ceilings, above the Group A limits
C3_Witness ==
    /\ Classified
    /\ request.grossIncome = outcome.value.details.adjustedGrossB
    /\ request.netIncome = outcome.value.details.adjustedNetB
    /\ request.grossIncome > outcome.value.details.adjustedGrossA
    /\ IsGroupB(outcome.value)

(***************************************************************************)
(* C4: for a valid household shape calculate_limits returns the base row   *)
(* (chosen by childCount > 0, adultCount, isRetired) plus                  *)
(* max(0, childCount - 1) times the bonus row of the household type plus   *)
(* the marriage bonus on the gross fields; one child earns no bonus, and   *)
(* a married, not retired single adult with two children gets              *)
(* grossA = 64668 and netA = 36600.                                        *)
(***************************************************************************)
ExpectedLimits(req) ==
    LET table    == IF req.childCount > 0 THEN ELIGIBILITY_CRITERIA_WITH_KIDS
                                          ELSE ELIGIBILITY_CRITERIA_NO_KIDS
        base     == table[req.adultCount][IF req.isRetired THEN "retired" ELSE "base"]
        extra    == IF req.childCount - 1 > 0 THEN req.childCount - 1 ELSE 0
        bonus    == CHILD_BONUS[IF req.adultCount = 1 THEN "single" ELSE "couple"]
        marriage == IF req.isMarried THEN 6250 ELSE 0
    IN  [grossA |-> base.grossA + extra * bonus.grossA + marriage,
         netA   |-> base.netA + extra * bonus.netA,
         grossB |-> base.grossB + extra * bonus.grossB + marriage,
         netB   |-> base.netB + extra * bonus.netB]

BaseRowWithMarriage(req) ==
    LET table    == IF req.childCount > 0 THEN ELIGIBILITY_CRITERIA_WITH_KIDS
                                          ELSE ELIGIBILITY_CRITERIA_NO_KIDS
        base     == table[req.adultCount][IF req.isRetired THEN "retired" ELSE "base"]
        marriage == IF req.isMarried THEN 6250 ELSE 0
    IN  [grossA |-> base.grossA + marriage, netA |-> base.netA,
         grossB |-> base.grossB + marriage, netB |-> base.netB]

C4_Limits_Formula ==
    ValidShape(request) =>
        /\ calculate_limits(request) = Return(ExpectedLimits(request))
        /\ request.childCount = 1 =>
               calculate_limits(request).value = BaseRowWithMarriage(request)
        /\ (request.adultCount = 1 /\ request.childCount = 2
            /\ request.isMarried /\ ~request.isRetired) =>
               /\ calculate_limits(request).value.grossA = 64668
               /\ calculate_limits(request).value.netA = 36600
        /\ Classified => AdjustedLimits(outcome.value.details) = ExpectedLimits(request)

\* the married single adult with two children, income exactly on the limits
C4_Witness ==
    /\ Classified
    /\ request.adultCount = 1 /\ request.childCount = 2
    /\ request.isMarried /\ ~request.isRetired
    /\ request.grossIncome = 64668 /\ request.netIncome = 36600
    /\ outcome.value.details.adjustedGrossA = 64668
    /\ outcome.value.details.adjustedNetA = 36600
    /\ IsGroupA(outcome.value)

(***************************************************************************)
(* C5: two valid households that differ only in isMarried have the same    *)
(* netA and netB, and the married one's grossA and grossB are each exactly *)
(* 6250 higher.                                                            *)
(***************************************************************************)
C5_Marriage_Gross_Only ==
    ValidShape(request) =>
        LET married   == calculate_limits([request EXCEPT !.isMarried = TRUE])
            unmarried == calculate_limits([request EXCEPT !.isMarried = FALSE])
        IN  /\ ~married.raised /\ ~unmarried.raised
            /\ married.value.netA = unmarried.value.netA
            /\ married.value.netB = unmarried.value.netB
            /\ married.value.grossA = unmarried.value.grossA + 6250
            /\ married.value.grossB = unmarried.value.grossB + 6250

\* a married household classified against limits 6250 above the unmarried ones
C5_Witness ==
    /\ Classified
    /\ request.isMarried
    /\ LET unmarried == calculate_limits([request EXCEPT !.isMarried = FALSE]).value
       IN  /\ outcome.value.details.adjustedGrossA = unmarried.grossA + 6250
           /\ outcome.value.details.adjustedGrossB = unmarried.grossB + 6250
           /\ outcome.value.details.adjustedNetA = unmarried.netA
           /\ outcome.value.details.adjustedNetB = unmarried.netB

(***************************************************************************)
(* C6: a request with adultCount outside {1,2} or childCount < 0 is        *)
(* answered Ineligible with the invalid-input reason, all adjusted limits  *)
(* and all childBonus fields 0, whatever the incomes; the shape check      *)
(* comes before the income check.                                          *)
(***************************************************************************)
C6_Invalid_Shape ==
    (Responded /\ ~ValidShape(request)) =>
        /\ ~outcome.raised
        /\ IsIneligible(outcome.value)
        /\ outcome.value.reason = REASON_INVALID_INPUT
        /\ AdjustedLimits(outcome.value.details) = ZERO_BONUS
        /\ outcome.value.details.childBonus = ZERO_BONUS

\* invalid shape together with a non-positive income
C6_Witness ==
    /\ Returned
    /\ request.adultCount = 3 /\ request.childCount = 0
    /\ request.grossIncome = 0 /\ request.netIncome = 10000
    /\ outcome.value.reason = REASON_INVALID_INPUT

(***************************************************************************)
(* C7: a request of valid shape with grossIncome <= 0 or netIncome <= 0    *)
(* is answered Ineligible with the invalid-income reason and all adjusted  *)
(* limits 0; a request with both incomes positive never gets that reason.  *)
(***************************************************************************)
C7_Invalid_Income ==
    /\ (Responded /\ ValidShape(request) /\ ~PositiveIncome(request)) =>
           /\ ~outcome.raised
           /\ IsIneligible(outcome.value)
           /\ outcome.value.reason = REASON_INVALID_INCOME
           /\ AdjustedLimits(outcome.value.details) = ZERO_BONUS
    /\ (Returned /\ PositiveIncome(request)) =>
           outcome.value.reason # REASON_INVALID_INCOME

\* two adults, no children, gross income exactly 0
C7_Witness ==
    /\ Returned
    /\ request.adultCount = 2 /\ request.childCount = 0
    /\ ~request.isMarried /\ ~request.isRetired
    /\ request.grossIncome = 0 /\ request.netIncome = 20000
    /\ outcome.value.reason = REASON_INVALID_INCOME

ThresholdRows ==
    { table[a][k] : table \in {ELIGIBILITY_CRITERIA_NO_KIDS, ELIGIBILITY_CRITERIA_WITH_KIDS},
                    a \in {1, 2}, k \in {"base", "retired"} }

RowMonotone(row) == row.grossB >= row.grossA /\ row.netB >= row.netA

C9_Rows_Monotone ==
    /\ DOMAIN ELIGIBILITY_CRITERIA_NO_KIDS = {1, 2}
    /\ DOMAIN ELIGIBILITY_CRITERIA_WITH_KIDS = {1, 2}
    /\ \A row \in ThresholdRows : RowMonotone(row)
    /\ ValidShape(request) =>
           RowMonotone(criteria_table(request)[request.adultCount][row_key(request)])

\* a classification against an unadjusted row of the with-kids table
C9_Witness ==
    /\ Classified
    /\ request.adultCount = 1 /\ request.childCount = 1
    /\ ~request.isMarried /\ ~request.isRetired
    /\ AdjustedLimits(outcome.value.details) = ELIGIBILITY_CRITERIA_WITH_KIDS[1]["base"]
    /\ outcome.value.details.adjustedGrossB > outcome.value.details.adjustedGrossA
    /\ outcome.value.details.adjustedNetB > outcome.value.details.adjustedNetA

(***************************************************************************)
(* C10: for childCount = 0 the childBonus of the result is all zeros in    *)
(* every outcome, and the adjusted limits carry no child bonus: the limits *)
(* computed for the household are the no-kids base row plus the marriage   *)
(* bonus on gross (a result rejected by validation carries zero limits).   *)
(***************************************************************************)
NoKidsRowWithMarriage(req) ==
    LET base     == ELIGIBILITY_CRITERIA_NO_KIDS[req.adultCount]
                        [IF req.isRetired THEN "retired" ELSE "base"]
        marriage == IF req.isMarried THEN 6250 ELSE 0
    IN  [grossA |-> base.grossA + marriage, netA |-> base.netA,
         grossB |-> base.grossB + marriage, netB |-> base.netB]

C10_No_Children_No_Bonus ==
    request.childCount = 0 =>
        /\ Responded =>
               /\ ~outcome.raised
               /\ outcome.value.details.childBonus = ZERO_BONUS
        /\ ValidShape(request) =>
               calculate_limits(request) = Return(NoKidsRowWithMarriage(request))
        /\ Classified =>
               AdjustedLimits(outcome.value.details) = NoKidsRowWithMarriage(request)
        /\ (Returned /\ ~Classified) =>
               AdjustedLimits(outcome.value.details) = ZERO_BONUS

\* a married couple without children, classified
C10_Witness ==
    /\ Classified
    /\ request.childCount = 0 /\ request.adultCount = 2
    /\ request.isMarried /\ ~request.isRetired
    /\ outcome.value.details.childBonus = ZERO_BONUS
    /\ outcome.value.details.adjustedGrossA = 51777 + 6250
    /\ outcome.value.details.adjustedNetA = 28350

(***************************************************************************)
(* The same household with other incomes.                                  *)
(***************************************************************************)
WithIncome(req, gross, net) == [req EXCEPT !.grossIncome = gross, !.netIncome = net]

\* max(0, childCount - 1) times the single-parent row of CHILD_BONUS
SingleRateBonus(childCount) ==
    LET extra == IF childCount - 1 > 0 THEN childCount - 1 ELSE 0
    IN  [grossA |-> extra * 5297, netA |-> extra * 7390,
         grossB |-> extra * 9916, netB |-> extra * 10346]

C12_Deterministic ==
    /\ tables = module_globals
    /\ \A i, j \in DOMAIN evals :
           evals[i].request = evals[j].request => evals[i].outcome = evals[j].outcome

\* the same request evaluated twice with another household in between
C12_Witness ==
    /\ Len(evals) = 3
    /\ evals[1].request = evals[3].request
    /\ evals[2].request.adultCount # evals[1].request.adultCount
    /\ evals[1].outcome = evals[3].outcome
    /\ ~evals[1].outcome.raised
    /\ evals[1].outcome.value.details.adjustedGrossA > 0

(***************************************************************************)
(* C13: isDisabled has no influence: the request with isDisabled flipped   *)
(* gets the same eligible flag, group, reason, adjusted limits and         *)
(* childBonus.                                                             *)
(***************************************************************************)
C13_Disabled_Ignored ==
    Responded =>
        determine_eligibility([request EXCEPT !.isDisabled = ~request.isDisabled]) = outcome

\* a disabled applicant classified against computed limits
C13_Witness ==
    /\ Classified
    /\ request.isDisabled
    /\ IsGroupB(outcome.value)
    /\ determine_eligibility([request EXCEPT !.isDisabled = FALSE]) = outcome

(***************************************************************************)
(* C14 as stated: every result of the engine is answered with a normal     *)
(* successful response that carries the result unchanged, and an error     *)
(* raised by the engine is answered with an internal failure (5xx).        *)
(***************************************************************************)
C14_Original ==
    Responded =>
        IF outcome.raised
        THEN response.status_code \in 500 .. 599
        ELSE response.status_code = 200 /\ response.body = outcome.value

(***************************************************************************)
(* C15 as stated: for a valid household with positive income every         *)
(* adjusted limit of the result is the base row plus the reported          *)
(* childBonus plus, on gross, the marriage bonus.                          *)
(***************************************************************************)
C15_Original ==
    Classified =>
        LET base  == BaseRowWithMarriage(request)
            bonus == outcome.value.details.childBonus
        IN  AdjustedLimits(outcome.value.details) =
                [grossA |-> base.grossA + bonus.grossA, netA |-> base.netA + bonus.netA,
                 grossB |-> base.grossB + bonus.grossB, netB |-> base.netB + bonus.netB]

(***************************************************************************)
(* C16: for a valid household shape the adjusted limits keep the order of  *)
(* the tiers, grossB >= grossA and netB >= netA; an income that passes the *)
(* Group A test is within both Group B ceilings, and for a valid household *)
(* with positive income exactly one of Group A, above-B and Group B is     *)
(* the outcome.                                                            *)
(***************************************************************************)
C16_Adjusted_Order ==
    /\ ValidShape(request) =>
           LET limits == calculate_limits(request)
           IN  /\ ~limits.raised
               /\ limits.value.grossB >= limits.value.grossA
               /\ limits.value.netB >= limits.value.netA
               /\ (request.grossIncome <= limits.value.grossA
                   /\ request.netIncome <= limits.value.netA) =>
                      (request.grossIncome <= limits.value.grossB
                       /\ request.netIncome <= limits.value.netB)
    /\ (Responded /\ ValidShape(request) /\ PositiveIncome(request)) =>
           /\ ~outcome.raised
           /\ LET res    == outcome.value
                  limits == calculate_limits(request).value
                  inA    == request.grossIncome <= limits.grossA
                            /\ request.netIncome <= limits.netA
                  aboveB == request.grossIncome > limits.grossB
                            \/ request.netIncome > limits.netB
                  isA    == IsGroupA(res)
                  isB    == IsGroupB(res)
                  isOver == IsIneligible(res) /\ res.reason \in ExceedReasons
              IN  /\ ~(inA /\ aboveB)
                  /\ isA \/ isB \/ isOver
                  /\ ~(isA /\ isB) /\ ~(isA /\ isOver) /\ ~(isB /\ isOver)

\* a retired single parent of three on the Group A limits, below the ceilings
C16_Witness ==
    /\ Classified
    /\ request.adultCount = 1 /\ request.childCount = 3 /\ request.isRetired
    /\ request.grossIncome = outcome.value.details.adjustedGrossA
    /\ request.netIncome = outcome.value.details.adjustedNetA
    /\ outcome.value.details.adjustedGrossB > outcome.value.details.adjustedGrossA
    /\ outcome.value.details.adjustedNetB > outcome.value.details.adjustedNetA
    /\ IsGroupA(outcome.value)

(***************************************************************************)
(* C17: in every result eligible is true exactly for the groups A and B    *)
(* and false exactly for the not-eligible group, group is one of the       *)
(* three, and a result with a non-zero adjusted limit belongs to a request *)
(* that passed both validations.                                           *)
(***************************************************************************)
C17_Result_Consistent ==
    Returned =>
        LET res == outcome.value
        IN  /\ res.group \in {GROUP_A, GROUP_B, NOT_ELIGIBLE}
            /\ res.eligible <=> res.group \in {GROUP_A, GROUP_B}
            /\ ~res.eligible <=> res.group = NOT_ELIGIBLE
            /\ AdjustedLimits(res.details) # ZERO_BONUS =>
                   (ValidShape(request) /\ PositiveIncome(request))

\* an ineligible result that carries computed limits
C17_Witness ==
    /\ Classified
    /\ IsIneligible(outcome.value)
    /\ outcome.value.details.adjustedGrossA > 0
    /\ outcome.value.details.adjustedNetB > 0

(***************************************************************************)
(* C18: classification is monotone in income.  With the household fixed    *)
(* and valid: below a Group A income every positive income is Group A;     *)
(* below an eligible income every positive income is eligible; above an    *)
(* income that exceeds a Group B ceiling every income is ineligible.       *)
(***************************************************************************)
C18_Monotone ==
    Classified =>
        \A gross \in GrossIncomes(request), net \in NetIncomes(request) :
            LET res   == outcome.value
                other == determine_eligibility(WithIncome(request, gross, net))
                lower == 0 < gross /\ gross <= request.grossIncome
                         /\ 0 < net /\ net <= request.netIncome
                upper == gross >= request.grossIncome /\ net >= request.netIncome
            IN  /\ (IsGroupA(res) /\ lower) => (~other.raised /\ IsGroupA(other.value))
                /\ (res.eligible /\ lower) => (~other.raised /\ other.value.eligible)
                /\ (IsIneligible(res) /\ upper) =>
                       (~other.raised /\ IsIneligible(other.value))

\* Group B exactly on the ceilings: lower incomes stay eligible, some in Group A
C18_Witness ==
    /\ Classified
    /\ IsGroupB(outcome.value)
    /\ request.grossIncome = outcome.value.details.adjustedGrossB
    /\ request.netIncome = outcome.value.details.adjustedNetB
    /\ IsGroupA(determine_eligibility(WithIncome(request, 1, 1)).value)
    /\ IsIneligible(determine_eligibility(
           WithIncome(request, request.grossIncome + 1, request.netIncome)).value)

(***************************************************************************)
(* Vocabulary of the properties of the account endpoints.                  *)
(***************************************************************************)
DocumentOps == {"save_document_check", "load_document_check"}

\* no row of the table has this auth_token
Unmatched(token) == \A e \in DOMAIN users : users[e].auth_token # token

\* no handler ever gets past its query by auth_token: login_with_token,
\* verify_email, validate_token and get_current_user accept no token
TokenNeverAccepted ==
    call.op \in {"login_with_token", "verify_email", "validate_token",
                 "get_current_user"} => call.status_code # 200

====
